---- MODULE Spec2Model ----
(***************************************************************************)
(* A model of smllr: the in-memory filesystem (src/src/vfs/test_fs.rs),    *)
(* the duplicate catalog (src/src/catalog/mod.rs), the path selector       *)
(* (src/src/actor/selector.rs) and the actors exercised by                 *)
(* src/src/actor/test.rs.                                                  *)
(*                                                                         *)
(* The proxies (catalog/proxy.rs), the actors (actor/mod.rs), the walker   *)
(* and the write half of the VFS (rm_file, make_link, len, num_inodes) are *)
(* not among the source files; they are modelled from spec.md sections     *)
(* 4.3, 4.5, 4.6 and 4.8 and from the calls the tests make.                *)
(***************************************************************************)
EXTENDS Integers, Sequences, FiniteSets, TLC

(***************************************************************************)
(* Bounds of the model.                                                    *)
(***************************************************************************)
\* Length of the FirstBytes array (4096 in the program, scaled down).
FIRST_K_BYTES == 2
\* Number of regular files of a filesystem.
NFiles == 3
\* Number of Duplicates in a group handed to an actor directly.
MaxDups == 2

(***************************************************************************)
(* Paths.  A path is the sequence of its components, the root directory    *)
(* included, so that Path::components().count() is Len and Path::parent()  *)
(* drops the last component.                                               *)
(***************************************************************************)
Root == <<"/">>
DirX == <<"/", "x">>
DirXY == <<"/", "x", "y">>
PathA == <<"/", "a">>
PathB == <<"/", "x", "b">>
PathC == <<"/", "x", "c">>
PathD == <<"/", "x", "y", "d">>
PathE == <<"/", "e">>
\* The regular files of the modelled filesystems are the first NFiles of
\* these, in creation order.
FilePaths == <<PathA, PathB, PathC, PathD, PathE>>
FileSet == {FilePaths[i] : i \in 1..NFiles}
\* Number of distinct inodes the regular files may use.
MaxInodes == NFiles
\* A path no filesystem of the model holds.
PathMissing == <<"/", "gone">>

\* Contents a file may be given (byte strings): two of one length that
\* differ in the last byte, and a shorter one.
ContentPool == {<<1, 1, 1>>, <<1, 1, 2>>, <<1>>}

(***************************************************************************)
(* Option and io::Result values.                                           *)
(***************************************************************************)
Some(v) == [some |-> TRUE, val |-> v]
Ok(v) == [ok |-> TRUE, val |-> v]
Err(e) == [ok |-> FALSE, val |-> e]

(***************************************************************************)
(* vfs/test_fs.rs: TestMD and TestFile with their builders.                *)
(***************************************************************************)
TestMD_new == [len |-> 0, creation |-> 0, kind |-> "File",
               id |-> [dev |-> 0, inode |-> 0]]
\* TestMD::with_creation_time
with_creation_time(md, t) == [md EXCEPT !.creation = t]

\* TestMD::with_len, TestMD::with_kind, TestMD::with_id
with_len(md, n) == [md EXCEPT !.len = n]
TestMD_with_kind(md, k) == [md EXCEPT !.kind = k]
with_id(md, id) == [md EXCEPT !.id = id]

\* MetaData::get_creation_time for TestMD
get_creation_time(md) == Ok(md.creation)

NoMD == [some |-> FALSE, val |-> TestMD_new]
NoContents == [some |-> FALSE, val |-> <<>>]

TestFile_new(s) ==
    [path |-> s, contents |-> NoContents, kind |-> "File", inode |-> 0,
     metadata |-> NoMD]

with_contents(tf, c) ==
    [tf EXCEPT !.metadata = IF @.some THEN Some([@.val EXCEPT !.len = Len(c)])
                            ELSE @,
               !.contents = Some(c)]

\* TestFile::with_kind
with_kind(tf, k) ==
    [tf EXCEPT !.metadata = IF @.some THEN Some([@.val EXCEPT !.kind = k])
                            ELSE @,
               !.kind = k]

with_inode(tf, i) ==
    [tf EXCEPT !.metadata = IF @.some
                            THEN Some([@.val EXCEPT !.id.inode = i])
                            ELSE @,
               !.inode = i]

with_metadata(tf, md) ==
    LET kind == IF tf.kind /= "File" THEN tf.kind
                ELSE IF md.kind /= "File" THEN md.kind ELSE tf.kind
        md1 == [md EXCEPT !.kind = IF tf.kind /= "File" THEN tf.kind ELSE @]
        md2 == [md1 EXCEPT !.len = IF tf.contents.some
                                   THEN Len(tf.contents.val) ELSE @]
        md3 == [md2 EXCEPT !.id.inode = IF tf.inode /= 0 THEN tf.inode ELSE @]
    IN  [tf EXCEPT !.kind = kind, !.metadata = Some(md3)]

\* File::get_inode for TestFile
File_get_inode(tf) == Ok(tf.inode)

\* File::get_metadata for TestFile
File_get_metadata(tf) ==
    IF tf.metadata.some THEN Ok(tf.metadata.val) ELSE Err("Other")

\* get_first_bytes without the padding: the contents cut at K bytes
get_first_bytes_unpadded(tf) ==
    IF tf.contents.some
    THEN Ok(SubSeq(tf.contents.val, 1,
                   IF Len(tf.contents.val) < FIRST_K_BYTES
                   THEN Len(tf.contents.val) ELSE FIRST_K_BYTES))
    ELSE Err("NotFound")

\* File::get_first_bytes for TestFile: the first K bytes, zero padded
get_first_bytes(tf) ==
    IF tf.contents.some
    THEN Ok([i \in 1..FIRST_K_BYTES |->
                IF i <= Len(tf.contents.val) THEN tf.contents.val[i] ELSE 0])
    ELSE Err("NotFound")

\* md5::compute: the digest of a byte string, taken to be free of collisions
\* (a positional numeral of the bytes with a leading 1).
RECURSIVE md5_compute(_)
md5_compute(c) ==
    IF c = <<>> THEN 1
    ELSE md5_compute(SubSeq(c, 1, Len(c) - 1)) * 4 + c[Len(c)]

\* get_hash digesting the first bytes only
get_hash_first_bytes(tf) ==
    IF tf.contents.some THEN Ok(md5_compute(get_first_bytes(tf).val))
    ELSE Err("NotFound")

\* File::get_hash for TestFile
get_hash(tf) ==
    IF tf.contents.some THEN Ok(md5_compute(tf.contents.val))
    ELSE Err("NotFound")

(***************************************************************************)
(* vfs/test_fs.rs: TestFileSystem, a record of the two maps                *)
(* files (path -> TestFile) and symlinks (path -> (TestFile, target)).     *)
(***************************************************************************)
EmptyMap == <<>>
TestFileSystem_new == [files |-> EmptyMap, symlinks |-> EmptyMap]

\* HashMap::insert: the entry at key k is set, replacing any earlier one
MapInsert(m, k, v) == [x \in (DOMAIN m) \cup {k} |-> IF x = k THEN v ELSE m[x]]
\* HashMap::remove
MapRemove(m, k) == [x \in (DOMAIN m) \ {k} |-> m[x]]

get_next_inode(fs) ==
    Cardinality(DOMAIN fs.files) + Cardinality(DOMAIN fs.symlinks)

create_regular(fs, path, kind) ==
    LET inode == get_next_inode(fs)
        md == [len |-> 0, creation |-> 0, kind |-> kind,
               id |-> [dev |-> 0, inode |-> inode]]
        tf == [path |-> path, contents |-> NoContents, kind |-> kind,
               inode |-> inode, metadata |-> Some(md)]
    IN  [fs EXCEPT !.files = MapInsert(@, path, tf)]

create_file(fs, path) == create_regular(fs, path, "File")
create_dir(fs, path) == create_regular(fs, path, "Dir")
add(fs, tf) == [fs EXCEPT !.files = MapInsert(@, tf.path, tf)]

\* VFS::get_file
get_file(fs, p) ==
    IF p \in DOMAIN fs.files THEN Ok(fs.files[p]) ELSE Err("NotFound")

(***************************************************************************)
(* Iteration over a std HashMap: the order is one the program does not     *)
(* choose, so an iteration yields any enumeration of the keys.             *)
(***************************************************************************)
RECURSIVE Perms(_)
Perms(S) ==
    IF S = {} THEN {<<>>}
    ELSE UNION {{<<x>> \o t : t \in Perms(S \ {x})} : x \in S}

\* every concatenation a1 \o ... \o an with ai taken from ss[i]
RECURSIVE SeqProduct(_)
SeqProduct(ss) ==
    IF ss = <<>> THEN {<<>>}
    ELSE {a \o b : a \in Head(ss), b \in SeqProduct(Tail(ss))}

\* the outputs of "for k in m.keys() { all.append(F[k]) }", F[k] a set of
\* possible vectors
IterConcat(S, F) ==
    UNION {SeqProduct([i \in 1..Len(o) |-> F[o[i]]]) : o \in Perms(S)}

(***************************************************************************)
(* vfs/test_fs.rs: symlinks and the read half of the VFS.                  *)
(***************************************************************************)
\* the elements of a vector
Range(s) == {s[i] : i \in 1..Len(s)}

\* Path::parent: None for the root
parent(path) ==
    IF Len(path) <= 1 THEN [some |-> FALSE, val |-> <<>>]
    ELSE Some(SubSeq(path, 1, Len(path) - 1))

create_symlink(fs, path, target) ==
    LET tf == [path |-> path, contents |-> NoContents, kind |-> "Symlink",
               inode |-> get_next_inode(fs), metadata |-> NoMD]
    IN  [fs EXCEPT !.symlinks = MapInsert(@, path, <<tf, target>>)]

\* the while loop of lookup: cur is the path whose symlink entry is looked
\* at, seen the targets passed so far
RECURSIVE lookup_chain(_, _, _)
lookup_chain(fs, cur, seen) ==
    IF cur \notin DOMAIN fs.symlinks THEN Err("NotFound")
    ELSE LET target == fs.symlinks[cur][2]
         IN  IF target \in Range(seen) THEN Err("Loop")
             ELSE lookup_chain(fs, target, Append(seen, target))

lookup(fs, path) ==
    IF path \in DOMAIN fs.files THEN Ok(fs.files[path])
    ELSE lookup_chain(fs, path, <<>>)

\* the paths list_dir collects from the map of files and from the map of
\* symlinks
file_children(fs, p) ==
    {path \in DOMAIN fs.files :
        parent(path) = Some(p) \/ ~parent(path).some}
symlink_children(fs, p) ==
    {src \in DOMAIN fs.symlinks : parent(src) = Some(p)}

\* VFS::list_dir: the entries of the files, then those of the symlinks,
\* each map iterated in some order
list_dir(fs, p) ==
    {Ok([i \in 1..Len(a) |-> fs.files[a[i]]]
            \o [i \in 1..Len(b) |-> fs.symlinks[b[i]][1]]) :
        a \in Perms(file_children(fs, p)),
        b \in Perms(symlink_children(fs, p))}

\* VFS::get_metadata
get_metadata(fs, path) ==
    IF path \in DOMAIN fs.files THEN File_get_metadata(fs.files[path])
    ELSE IF path \in DOMAIN fs.symlinks
    THEN LET f == lookup(fs, fs.symlinks[path][2])
         IN  IF f.ok THEN File_get_metadata(f.val) ELSE f
    ELSE Err("NotFound")

\* VFS::get_symlink_metadata
get_symlink_metadata(fs, path) ==
    IF path \in DOMAIN fs.files THEN File_get_metadata(fs.files[path])
    ELSE IF path \in DOMAIN fs.symlinks
    THEN File_get_metadata(fs.symlinks[path][1])
    ELSE Err("NotFound")

\* VFS::read_link
read_link(fs, path) ==
    IF path \in DOMAIN fs.symlinks THEN Ok(fs.symlinks[path][2])
    ELSE Err("NotFound")

\* File::get_path, File::get_type for TestFile
get_path(tf) == tf.path
get_type(tf) == Ok(tf.kind)

(***************************************************************************)
(* The walker (from spec.md 4.3 and the calls of src/src/test.rs): the     *)
(* roots and what they lead to are taken one at a time from a stack; a     *)
(* regular file is emitted, a directory replaced by its entries, a symlink *)
(* by its target.  A path is handled once (the symlink-cycle guard), and a *)
(* path the VFS does not hold is skipped.                                  *)
(***************************************************************************)
DirWalker_new(roots) ==
    [directories |-> roots, todo |-> roots, seen |-> {}, files |-> <<>>,
     done |-> FALSE]

\* the kind of the entry at path
file_type(fs, path) ==
    IF get_file(fs, path).ok THEN get_type(get_file(fs, path).val)
    ELSE IF read_link(fs, path).ok THEN Ok("Symlink")
    ELSE Err("NotFound")

\* a handle_file that does not remember the path
handle_file_forgetful(w, path) == [w EXCEPT !.files = Append(@, path)]

handle_file(w, path) ==
    [w EXCEPT !.files = Append(@, path), !.seen = @ \cup {path}]

traverse_folder(w, fs, path) ==
    {[w EXCEPT !.seen = @ \cup {path},
               !.todo = [i \in 1..Len(l.val) |-> get_path(l.val[i])] \o @] :
        l \in list_dir(fs, path)}

handle_symlink(w, fs, path) ==
    [w EXCEPT !.seen = @ \cup {path},
              !.todo = <<read_link(fs, path).val>> \o @]

\* the walker states one path may lead to
dispatch(w, fs, path) ==
    LET kind == file_type(fs, path)
    IN  IF path \in w.seen \/ ~kind.ok THEN {w}
        ELSE IF kind.val = "File" THEN {handle_file(w, path)}
        ELSE IF kind.val = "Dir" THEN traverse_folder(w, fs, path)
        ELSE {handle_symlink(w, fs, path)}

(***************************************************************************)
(* catalog/proxy.rs (from spec.md 4.5, 4.6): Duplicates is the vector of   *)
(* the paths of one inode; HashProxy and FirstKBytesProxy are tagged       *)
(* PendingSingle or Promoted.                                              *)
(***************************************************************************)
NoID == [dev |-> 0, inode |-> 0]
NoPath == <<>>

HashProxy_new(id, path) ==
    [state |-> "PendingSingle", id |-> id, path |-> path, map |-> EmptyMap]

\* file (id, path) under digest h: append to the Duplicates of a known ID,
\* or start a new Duplicates
HashProxy_file(map, h, id, path) ==
    IF h \in DOMAIN map
    THEN IF id \in DOMAIN map[h]
         THEN [map EXCEPT ![h] = [@ EXCEPT ![id] = Append(@, path)]]
         ELSE [map EXCEPT ![h] = MapInsert(@, id, <<path>>)]
    ELSE MapInsert(map, h, MapInsert(EmptyMap, id, <<path>>))

\* the digest of the file at path, read through the VFS
HashOf(fs, path) ==
    IF get_file(fs, path).ok THEN get_hash(get_file(fs, path).val)
    ELSE Err("NotFound")

FirstBytesOf(fs, path) ==
    IF get_file(fs, path).ok THEN get_first_bytes(get_file(fs, path).val)
    ELSE Err("NotFound")

HashProxy_insert(hp, fs, id, path) ==
    LET hn == HashOf(fs, path)
        hs == HashOf(fs, hp.path)
    IN  IF hp.state = "PendingSingle"
        THEN IF hs.ok /\ hn.ok
             THEN Ok([state |-> "Promoted", id |-> NoID, path |-> NoPath,
                      map |-> HashProxy_file(
                                 HashProxy_file(EmptyMap, hs.val, hp.id, hp.path),
                                 hn.val, id, path)])
             ELSE Err("panic")
        ELSE IF hn.ok
             THEN Ok([hp EXCEPT !.map = HashProxy_file(@, hn.val, id, path)])
             ELSE Err("panic")

\* the Duplicates of every digest bucket that holds two or more IDs
HashProxy_get_repeats(hp) ==
    IF hp.state = "PendingSingle" THEN {<<>>}
    ELSE IterConcat(DOMAIN hp.map,
            [h \in DOMAIN hp.map |->
                IF Cardinality(DOMAIN hp.map[h]) >= 2
                THEN {[i \in 1..Len(o) |-> hp.map[h][o[i]]] :
                         o \in Perms(DOMAIN hp.map[h])}
                ELSE {<<>>}])

FirstKBytesProxy_new(id, path) ==
    [state |-> "PendingSingle", id |-> id, path |-> path, map |-> EmptyMap]

\* file (id, path) under first bytes fb: into the matching HashProxy, or a
\* new pending one
FirstKBytesProxy_file(map, fs, fb, id, path) ==
    IF fb \in DOMAIN map
    THEN LET r == HashProxy_insert(map[fb], fs, id, path)
         IN  IF r.ok THEN Ok([map EXCEPT ![fb] = r.val]) ELSE Err("panic")
    ELSE Ok(MapInsert(map, fb, HashProxy_new(id, path)))

FirstKBytesProxy_insert(fk, fs, id, path) ==
    LET bn == FirstBytesOf(fs, path)
        bs == FirstBytesOf(fs, fk.path)
    IN  IF fk.state = "PendingSingle"
        THEN IF bs.ok /\ bn.ok
             THEN LET m1 == FirstKBytesProxy_file(EmptyMap, fs, bs.val,
                                                  fk.id, fk.path)
                      m2 == FirstKBytesProxy_file(m1.val, fs, bn.val, id, path)
                  IN  IF m2.ok
                      THEN Ok([state |-> "Promoted", id |-> NoID,
                               path |-> NoPath, map |-> m2.val])
                      ELSE Err("panic")
             ELSE Err("panic")
        ELSE IF bn.ok
             THEN LET m == FirstKBytesProxy_file(fk.map, fs, bn.val, id, path)
                  IN  IF m.ok THEN Ok([fk EXCEPT !.map = m.val])
                      ELSE Err("panic")
             ELSE Err("panic")

FirstKBytesProxy_get_repeats(fk) ==
    IF fk.state = "PendingSingle" THEN {<<>>}
    ELSE IterConcat(DOMAIN fk.map,
            [fb \in DOMAIN fk.map |-> HashProxy_get_repeats(fk.map[fb])])

(***************************************************************************)
(* catalog/mod.rs: FileCataloger.  The catalog is the map                  *)
(* size -> FirstKBytesProxy.                                               *)
(***************************************************************************)
FileCataloger_new == EmptyMap

\* insert with the ID taken from the path, not from the inode
insert_id_from_path(cat, fs, path) ==
    LET file == get_file(fs, path)
        md == File_get_metadata(file.val)
        size == md.val.len
        id == [dev |-> md.val.id.dev, inode |-> Len(path)]
    IN  IF ~file.ok THEN Err("No such file")
        ELSE IF ~md.ok THEN Err("IO Error getting Metadata")
        ELSE IF size \in DOMAIN cat
             THEN LET r == FirstKBytesProxy_insert(cat[size], fs, id, path)
                  IN  IF r.ok THEN Ok([cat EXCEPT ![size] = r.val])
                      ELSE Err("panic")
             ELSE Ok(MapInsert(cat, size, FirstKBytesProxy_new(id, path)))

\* insert with both fields of the ID read from the device
insert_id_from_device(cat, fs, path) ==
    LET file == get_file(fs, path)
        md == File_get_metadata(file.val)
        size == md.val.len
        id == [dev |-> md.val.id.dev, inode |-> md.val.id.dev]
    IN  IF ~file.ok THEN Err("No such file")
        ELSE IF ~md.ok THEN Err("IO Error getting Metadata")
        ELSE IF size \in DOMAIN cat
             THEN LET r == FirstKBytesProxy_insert(cat[size], fs, id, path)
                  IN  IF r.ok THEN Ok([cat EXCEPT ![size] = r.val])
                      ELSE Err("panic")
             ELSE Ok(MapInsert(cat, size, FirstKBytesProxy_new(id, path)))

\* insert that replaces an occupied entry by a new proxy
insert_overwrite(cat, fs, path) ==
    LET file == get_file(fs, path)
        md == File_get_metadata(file.val)
        size == md.val.len
        id == [dev |-> md.val.id.dev, inode |-> md.val.id.inode]
    IN  IF ~file.ok THEN Err("No such file")
        ELSE IF ~md.ok THEN Err("IO Error getting Metadata")
        ELSE Ok(MapInsert(cat, size, FirstKBytesProxy_new(id, path)))

\* FileCataloger::insert: Ok(the catalog after the call) or Err (an expect
\* failed and the call panicked)
insert(cat, fs, path) ==
    LET file == get_file(fs, path)
        md == File_get_metadata(file.val)
        size == md.val.len
        id == [dev |-> md.val.id.dev, inode |-> md.val.id.inode]
    IN  IF ~file.ok THEN Err("No such file")
        ELSE IF ~md.ok THEN Err("IO Error getting Metadata")
        ELSE IF size \in DOMAIN cat
             THEN LET r == FirstKBytesProxy_insert(cat[size], fs, id, path)
                  IN  IF r.ok THEN Ok([cat EXCEPT ![size] = r.val])
                      ELSE Err("panic")
             ELSE Ok(MapInsert(cat, size, FirstKBytesProxy_new(id, path)))

\* a panicking insert that has made the entry of size 0 before its expects
insert_panic_state_entry_first(cat, fs, path) ==
    MapInsert(cat, 0, FirstKBytesProxy_new(NoID, path))

\* The catalog a panicking insert leaves behind: the expects on get_file,
\* get_metadata and get_device come before the entry of the size is looked
\* up, so nothing has been written.
insert_panic_state(cat, fs, path) == cat

(***************************************************************************)
(* The content reads of an insert (from spec.md 4.4, 4.5, 4.6): the paths  *)
(* whose first bytes are read and the paths whose contents are hashed.     *)
(***************************************************************************)
NoReads == [first_bytes |-> {}, hashes |-> {}]

\* a pending HashProxy hashes the stored path and the new one, a promoted
\* one the new path
HashProxy_insert_reads(hp, path) ==
    IF hp.state = "PendingSingle" THEN {hp.path, path} ELSE {path}

FirstKBytesProxy_insert_reads(fk, fs, path) ==
    IF fk.state = "PendingSingle"
    THEN [first_bytes |-> {fk.path, path},
          hashes |-> IF FirstBytesOf(fs, fk.path) = FirstBytesOf(fs, path)
                     THEN {fk.path, path} ELSE {}]
    ELSE [first_bytes |-> {path},
          hashes |-> LET fb == FirstBytesOf(fs, path)
                     IN  IF fb.ok /\ fb.val \in DOMAIN fk.map
                         THEN HashProxy_insert_reads(fk.map[fb.val], path)
                         ELSE {}]

\* an insert that reads the first bytes of every path it is given
insert_reads_eager(cat, fs, path) ==
    LET file == get_file(fs, path)
        md == File_get_metadata(file.val)
        size == md.val.len
    IN  IF ~file.ok \/ ~md.ok THEN NoReads
        ELSE IF size \in DOMAIN cat
        THEN FirstKBytesProxy_insert_reads(cat[size], fs, path)
        ELSE [first_bytes |-> {path}, hashes |-> {}]

\* FileCataloger::insert: a size seen before goes to its proxy, a new size
\* makes a proxy and reads nothing
insert_reads(cat, fs, path) ==
    LET file == get_file(fs, path)
        md == File_get_metadata(file.val)
        size == md.val.len
    IN  IF ~file.ok \/ ~md.ok THEN NoReads
        ELSE IF size \in DOMAIN cat
        THEN FirstKBytesProxy_insert_reads(cat[size], fs, path)
        ELSE NoReads

\* FileCataloger::get_repeats: the vectors the call may return, one for each
\* iteration order of the maps
get_repeats(cat) ==
    IterConcat(DOMAIN cat,
        [size \in DOMAIN cat |-> FirstKBytesProxy_get_repeats(cat[size])])

(***************************************************************************)
(* The write half of the VFS the actors use (from spec.md 4.8 and the      *)
(* counts the actor tests read).                                           *)
(***************************************************************************)
exists(fs, p) == p \in DOMAIN fs.files \/ p \in DOMAIN fs.symlinks

\* TestFileSystem::len: the number of entries
len(fs) == Cardinality(DOMAIN fs.files) + Cardinality(DOMAIN fs.symlinks)

\* TestFileSystem::num_inodes: the number of distinct inodes of the entries
num_inodes(fs) ==
    Cardinality({fs.files[p].inode : p \in DOMAIN fs.files}
                \cup {fs.symlinks[p][1].inode : p \in DOMAIN fs.symlinks})

\* VFS::rm_file: unlink the entry at p
rm_file(fs, p) ==
    IF p \in DOMAIN fs.files
    THEN Ok([fs EXCEPT !.files = MapRemove(@, p)])
    ELSE IF p \in DOMAIN fs.symlinks
    THEN Ok([fs EXCEPT !.symlinks = MapRemove(@, p)])
    ELSE Err("NotFound")

\* make_link that copies dst to a new inode
make_link_copy(fs, src, dst) ==
    IF dst \notin DOMAIN fs.files THEN Err("NotFound")
    ELSE IF exists(fs, src) THEN Err("AlreadyExists")
    ELSE Ok([fs EXCEPT !.files =
                MapInsert(@, src, [fs.files[dst] EXCEPT !.path = src,
                                                        !.inode = len(fs) + 1])])

\* make_link that copies dst to an inode no entry has
make_link_new_inode(fs, src, dst) ==
    IF dst \notin DOMAIN fs.files THEN Err("NotFound")
    ELSE IF exists(fs, src) THEN Err("AlreadyExists")
    ELSE LET used == {fs.files[p].inode : p \in DOMAIN fs.files}
             top == CHOOSE n \in used : \A k \in used : k <= n
         IN  Ok([fs EXCEPT !.files =
                    MapInsert(@, src, [fs.files[dst] EXCEPT !.path = src,
                                                            !.inode = top + 1])])

\* VFS::make_link: a new name src for the inode of dst (a hardlink)
make_link(fs, src, dst) ==
    IF dst \notin DOMAIN fs.files THEN Err("NotFound")
    ELSE IF exists(fs, src) THEN Err("AlreadyExists")
    ELSE Ok([fs EXCEPT !.files =
                MapInsert(@, src, [fs.files[dst] EXCEPT !.path = src])])

(***************************************************************************)
(* actor/selector.rs: PathSelect.  Iterator::min_by returns the first of   *)
(* several equal minima, Iterator::max_by the last of several equal        *)
(* maxima.                                                                 *)
(***************************************************************************)
components_count(path) == Len(path)

PathSelect_min(dups) ==
    dups[CHOOSE i \in 1..Len(dups) :
            \A j \in 1..Len(dups) :
                /\ components_count(dups[i]) <= components_count(dups[j])
                /\ j < i => components_count(dups[j]) > components_count(dups[i])]

PathSelect_max(dups) ==
    dups[CHOOSE i \in 1..Len(dups) :
            \A j \in 1..Len(dups) :
                /\ components_count(dups[i]) >= components_count(dups[j])
                /\ j > i => components_count(dups[j]) < components_count(dups[i])]

\* a select that does not look at reverse
PathSelect_select_forward(reverse, dups) == PathSelect_min(dups)

\* a select that returns the directory of the path it chose
PathSelect_select_parent(reverse, dups) ==
    LET chosen == IF reverse THEN PathSelect_max(dups) ELSE PathSelect_min(dups)
    IN  SubSeq(chosen, 1, Len(chosen) - 1)

PathSelect_select(reverse, dups) ==
    IF reverse THEN PathSelect_max(dups) ELSE PathSelect_min(dups)

(***************************************************************************)
(* actor/selector.rs: DateSelect, as the implementation kept in the        *)
(* comment at the end of the file.  Every path is looked up and its        *)
(* metadata and creation time unwrapped, so a path that does not resolve,  *)
(* or a file without metadata, makes the call panic.                       *)
(***************************************************************************)
\* get_file(path).unwrap() and the unwraps of cmp succeed for path
statable(fs, path) ==
    /\ get_file(fs, path).ok
    /\ File_get_metadata(get_file(fs, path).val).ok
    /\ get_creation_time(File_get_metadata(get_file(fs, path).val).val).ok

\* the date cmp compares
date_of(fs, path) ==
    get_creation_time(File_get_metadata(get_file(fs, path).val).val).val

DateSelect_min(fs, dups) ==
    IF \E i \in 1..Len(dups) : ~statable(fs, dups[i]) THEN Err("panic")
    ELSE Ok(dups[CHOOSE i \in 1..Len(dups) :
                \A j \in 1..Len(dups) :
                    /\ date_of(fs, dups[i]) <= date_of(fs, dups[j])
                    /\ j < i => date_of(fs, dups[j]) > date_of(fs, dups[i])])

DateSelect_max(fs, dups) ==
    IF \E i \in 1..Len(dups) : ~statable(fs, dups[i]) THEN Err("panic")
    ELSE Ok(dups[CHOOSE i \in 1..Len(dups) :
                \A j \in 1..Len(dups) :
                    /\ date_of(fs, dups[i]) >= date_of(fs, dups[j])
                    /\ j > i => date_of(fs, dups[j]) < date_of(fs, dups[i])])

\* a select with the sense of reverse that PathSelect has
DateSelect_select_as_path(reverse, fs, dups) ==
    IF reverse THEN DateSelect_max(fs, dups) ELSE DateSelect_min(fs, dups)

DateSelect_select(reverse, fs, dups) ==
    IF reverse THEN DateSelect_min(fs, dups) ELSE DateSelect_max(fs, dups)

\* Selector::select of either selector: Ok(the path) or Err (a panic)
Selector_select(selector, reverse, fs, dups) ==
    IF selector = "path" THEN Ok(PathSelect_select(reverse, dups))
    ELSE DateSelect_select(reverse, fs, dups)

(***************************************************************************)
(* actor/mod.rs (from spec.md 4.7, 4.8, 7): a group is a vector of         *)
(* Duplicates; the selector picks the keeper among all paths of the group, *)
(* the keeper Duplicates is the one that holds the selected path.          *)
(***************************************************************************)
RECURSIVE Flatten(_)
Flatten(group) ==
    IF group = <<>> THEN <<>> ELSE Head(group) \o Flatten(Tail(group))


\* the path the selector keeps
keeper_path(group, reverse) == PathSelect_select(reverse, Flatten(group))

\* index of the keeper Duplicates
keeper_index(group, reverse) ==
    LET kept == keeper_path(group, reverse)
    IN  CHOOSE k \in 1..Len(group) :
            /\ kept \in Range(group[k])
            /\ \A j \in 1..(k - 1) : kept \notin Range(group[j])

\* every path but the selected one
non_keepers_by_path(group, reverse) ==
    SelectSeq(Flatten(group), LAMBDA p : p /= keeper_path(group, reverse))

\* the paths of every Duplicates but the keeper, in group order
non_keepers(group, reverse) ==
    LET keeper == keeper_index(group, reverse)
    IN  Flatten([k \in 1..Len(group) |->
                    IF k = keeper THEN <<>> ELSE group[k]])

\* An actor's result: the filesystem after the call, the number of VFS
\* failures it logged and went on from, and the number of groups it gave up
\* because the keeper could not be preserved.
Acted(f, n, a) == [fs |-> f, errors |-> n, aborted |-> a]

RECURSIVE delete_all(_, _, _)
delete_all(fs, paths, errors) ==
    IF paths = <<>> THEN Acted(fs, errors, 0)
    ELSE LET r == rm_file(fs, Head(paths))
         IN  IF r.ok THEN delete_all(r.val, Tail(paths), errors)
             ELSE delete_all(fs, Tail(paths), errors + 1)

\* a printer that unlinks what it reports
FilePrinter_act_unlinking(fs, group, reverse) ==
    delete_all(fs, non_keepers(group, reverse), 0)

\* FilePrinter::act: report the selection
FilePrinter_act(fs, group, reverse) == Acted(fs, 0, 0)

\* a deleter that does not look at the keeper first
FileDeleter_act_unchecked(fs, group, reverse) ==
    delete_all(fs, non_keepers(group, reverse), 0)

\* a deleter that stops after the first path
FileDeleter_act_first_only(fs, group, reverse) ==
    IF ~exists(fs, keeper_path(group, reverse)) THEN Acted(fs, 0, 1)
    ELSE delete_all(fs, SubSeq(non_keepers(group, reverse), 1, 1), 0)

\* FileDeleter::act: delete every path of every Duplicates but the keeper
FileDeleter_act(fs, group, reverse) ==
    IF ~exists(fs, keeper_path(group, reverse)) THEN Acted(fs, 0, 1)
    ELSE delete_all(fs, non_keepers(group, reverse), 0)

RECURSIVE link_all(_, _, _, _)
link_all(fs, paths, target, errors) ==
    IF paths = <<>> THEN Acted(fs, errors, 0)
    ELSE LET r == rm_file(fs, Head(paths))
             l == make_link(r.val, Head(paths), target)
         IN  IF ~r.ok THEN link_all(fs, Tail(paths), target, errors + 1)
             ELSE IF ~l.ok THEN link_all(r.val, Tail(paths), target, errors + 1)
             ELSE link_all(l.val, Tail(paths), target, errors)

\* FileLinker::act: replace every path of every Duplicates but the keeper by
\* a hardlink to the first path of the keeper Duplicates
FileLinker_act(fs, group, reverse) ==
    LET target == group[keeper_index(group, reverse)][1]
    IN  IF ~exists(fs, keeper_path(group, reverse))
           \/ target \notin DOMAIN fs.files
        THEN Acted(fs, 0, 1)
        ELSE link_all(fs, non_keepers(group, reverse), target, 0)

act(actor, fs, group, reverse) ==
    CASE actor = "print" -> FilePrinter_act(fs, group, reverse)
      [] actor = "delete" -> FileDeleter_act(fs, group, reverse)
      [] actor = "link" -> FileLinker_act(fs, group, reverse)

\* the main loop: each group through selector and actor, in order
RECURSIVE act_groups(_, _, _, _, _, _)
act_groups(actor, fs, groups, reverse, errors, aborted) ==
    IF groups = <<>> THEN Acted(fs, errors, aborted)
    ELSE LET r == act(actor, fs, Head(groups), reverse)
         IN  act_groups(actor, r.fs, Tail(groups), reverse,
                        errors + r.errors, aborted + r.aborted)

(***************************************************************************)
(* The duplicate groups of a vector returned by get_repeats (spec.md 3):   *)
(* the Duplicates of one digest bucket, which the vector holds in a row.   *)
(***************************************************************************)
Buckets(cat) ==
    UNION {UNION {{<<size, fb, h>> : h \in DOMAIN cat[size].map[fb].map} :
                    fb \in DOMAIN cat[size].map} :
             size \in DOMAIN cat}

BucketOf(cat, d) ==
    CHOOSE b \in Buckets(cat) :
        \E id \in DOMAIN cat[b[1]].map[b[2]].map[b[3]] :
            cat[b[1]].map[b[2]].map[b[3]][id] = d

\* the indices of r at which a new digest bucket starts
group_starts(cat, r) ==
    LET bucket == [i \in 1..Len(r) |-> BucketOf(cat, r[i])]
    IN  {i \in 1..Len(r) : i = 1 \/ bucket[i] /= bucket[i - 1]}

duplicate_groups(cat, r) ==
    LET starts == group_starts(cat, r)
        nth(k) == CHOOSE i \in starts : Cardinality({j \in starts : j < i}) = k - 1
    IN  [k \in 1..Cardinality(starts) |->
            SubSeq(r, nth(k),
                   IF k = Cardinality(starts) THEN Len(r) ELSE nth(k + 1) - 1)]

(***************************************************************************)
(* The filesystems the runs start from, built with the calls the tests     *)
(* make: the root directory first (inode 0), the regular files with        *)
(* with_inode / with_metadata / with_contents, then the directories of     *)
(* the deeper paths.  Files of one inode are hardlinks and carry the same  *)
(* contents.                                                               *)
(***************************************************************************)
\* inode of each file: the first file has inode 1, a later one an inode
\* already used or the next unused one
InodeChoices ==
    {a \in [1..NFiles -> 1..MaxInodes] :
        /\ a[1] = 1
        /\ \A i \in 2..NFiles : \E j \in 1..(i - 1) : a[i] <= a[j] + 1}

\* contents of each inode in use
ContentChoices(a) ==
    {c \in [1..MaxInodes -> ContentPool] :
        \A n \in 1..MaxInodes :
            (\A i \in 1..NFiles : a[i] /= n) => c[n] = <<1>>}

MkFile(p, inode, c) ==
    with_contents(with_metadata(with_inode(TestFile_new(p), inode), TestMD_new), c)

RECURSIVE AddFiles(_, _, _, _)
AddFiles(fs, a, c, i) ==
    IF i > NFiles THEN fs
    ELSE AddFiles(add(fs, MkFile(FilePaths[i], a[i], c[a[i]])), a, c, i + 1)

MkFS(a, c) ==
    create_dir(create_dir(
        AddFiles(create_dir(TestFileSystem_new, Root), a, c, 1), DirX), DirXY)

\* the groups handed to an actor directly: each path of the filesystem (and
\* one path it does not hold) in none or one of the Duplicates
GroupPaths == [i \in 1..(NFiles + 1) |->
                  IF i <= NFiles THEN FilePaths[i] ELSE PathMissing]

RECURSIVE PathsLabelled(_, _, _)
PathsLabelled(g, k, i) ==
    IF i > NFiles + 1 THEN <<>>
    ELSE (IF g[i] = k THEN <<GroupPaths[i]>> ELSE <<>>)
            \o PathsLabelled(g, k, i + 1)

RECURSIVE DropEmpty(_)
DropEmpty(s) ==
    IF s = <<>> THEN <<>>
    ELSE IF Head(s) = <<>> THEN DropEmpty(Tail(s))
    ELSE <<Head(s)>> \o DropEmpty(Tail(s))

MkGroup(g) == DropEmpty([k \in 1..MaxDups |-> PathsLabelled(g, k, 1)])

GroupChoices ==
    {MkGroup(g) : g \in [1..(NFiles + 1) -> 0..MaxDups]} \ {<<>>}

(***************************************************************************)
(* State.                                                                  *)
(***************************************************************************)
VARIABLES
    fs,        \* the TestFileSystem shared by cataloger and actors
    fs0,       \* the filesystem the run started from
    catalog,   \* FileCataloger.catalog
    inserted,  \* the paths passed to insert so far, in call order
    panicked,  \* an expect of insert failed
    repeats,   \* the vector get_repeats returned to the main loop
    last,      \* the actor run made last: actor, selector, groups, the
               \* filesystem before it, the errors logged, the runs made
    selected,  \* the call of Selector::select made last: selector, the
               \* Duplicates given, the result
    walk,      \* the DirWalker: the stack of paths to handle, the paths
               \* handled, the files emitted so far, traverse_all returned
    twin,      \* a second FileCataloger given the same inserts: its catalog,
               \* the vector its get_repeats returned
    reads,     \* the paths whose first bytes were read and the paths whose
               \* contents were hashed, by the inserts so far
    created,   \* the create_file / create_dir / create_symlink calls made
               \* on fs, in call order, each with the inode it assigned
    look,      \* the call of TestFileSystem::lookup under way: the path,
               \* cur and seen of its loop, its result
    file       \* a TestFile under construction: the file, the builder
               \* calls made, what get_first_bytes returned for it

vars == <<fs, fs0, catalog, inserted, panicked, repeats, last, selected, walk,
          twin, reads, created, look, file>>

NoSelect == [selector |-> "none", reverse |-> FALSE, dups |-> <<>>,
             result |-> Err("none"), calls |-> 0]

NoLookup == [path |-> NoPath, cur |-> [some |-> FALSE, val |-> NoPath],
             seen |-> <<>>,
             result |-> Err("none"), state |-> "idle"]

NoTwin == [catalog |-> FileCataloger_new, repeats |-> <<>>, returned |-> FALSE]

NoRun == [actor |-> "none", reverse |-> FALSE, groups |-> <<>>,
          before |-> TestFileSystem_new, errors |-> 0, aborted |-> 0,
          runs |-> 0]

InitRest ==
    /\ fs0 = fs
    /\ catalog = FileCataloger_new
    /\ inserted = <<>>
    /\ panicked = FALSE
    /\ repeats = <<>>
    /\ last = NoRun
    /\ selected = NoSelect
    /\ walk = DirWalker_new(<<>>)
    /\ twin = NoTwin
    /\ reads = NoReads
    /\ created = <<>>
    /\ look = NoLookup
    /\ file = [tf |-> TestFile_new(PathA), calls |-> 0, read |-> FALSE,
               first_bytes |-> Err("none")]

Init ==
    /\ \E a \in InodeChoices : \E c \in ContentChoices(a) : fs = MkFS(a, c)
    /\ InitRest

\* FileCataloger::insert(path), before any actor has run; the walker hands
\* each path to the cataloger once
Insert(path) ==
    /\ ~panicked
    /\ last.runs = 0
    /\ path \notin Range(inserted)
    /\ LET r == insert(catalog, fs, path)
           rd == insert_reads(catalog, fs, path)
       IN  /\ panicked' = ~r.ok
           /\ catalog' = IF r.ok THEN r.val
                         ELSE insert_panic_state(catalog, fs, path)
           /\ reads' = [first_bytes |-> reads.first_bytes \cup rd.first_bytes,
                        hashes |-> reads.hashes \cup rd.hashes]
    /\ inserted' = Append(inserted, path)
    /\ UNCHANGED <<fs, fs0, repeats, last, selected, walk, twin, created, look, file>>

\* every file of the filesystem has been cataloged
CatalogedAll == FileSet \subseteq Range(inserted)

\* The main loop once the walk is over: get_repeats, then every duplicate
\* group through the selector and the actor.
Dedup(actor, reverse) ==
    /\ ~panicked
    /\ last.runs = 0
    /\ CatalogedAll
    /\ \E r \in get_repeats(catalog) :
          LET groups == duplicate_groups(catalog, r)
              res == act_groups(actor, fs, groups, reverse, 0, 0)
          IN  /\ repeats' = r
              /\ fs' = res.fs
              /\ last' = [actor |-> actor, reverse |-> reverse,
                          groups |-> groups, before |-> fs,
                          errors |-> res.errors, aborted |-> res.aborted,
                          runs |-> 1]
    /\ UNCHANGED <<fs0, catalog, inserted, panicked, selected, walk, twin, reads, created, look, file>>

\* The same actor run once more on the same groups.
DedupAgain ==
    /\ last.runs = 1
    /\ LET res == act_groups(last.actor, fs, last.groups, last.reverse, 0, 0)
       IN  /\ fs' = res.fs
           /\ last' = [last EXCEPT !.before = fs, !.errors = res.errors,
                                   !.aborted = res.aborted, !.runs = 2]
    /\ UNCHANGED <<fs0, catalog, inserted, panicked, repeats, selected, walk, twin, reads, created, look, file>>

\* The whole run: the walk, then the deleter on the groups found (the other
\* actors are run on their own in SpecActor).
Next ==
    \/ \E p \in FileSet : Insert(p)
    \/ \E reverse \in BOOLEAN : Dedup("delete", reverse)
    \/ DedupAgain

Spec == Init /\ [][Next]_vars

(***************************************************************************)
(* The actors on their own, as the actor tests call them: one act on a     *)
(* group made by hand, on a filesystem whose files all carry the same      *)
(* contents.                                                               *)
(***************************************************************************)
InitActor ==
    /\ \E a \in InodeChoices : fs = MkFS(a, [n \in 1..MaxInodes |-> <<1>>])
    /\ InitRest

Act(actor, reverse, group) ==
    /\ last.runs = 0
    /\ LET res == act(actor, fs, group, reverse)
       IN  /\ fs' = res.fs
           /\ last' = [actor |-> actor, reverse |-> reverse,
                       groups |-> <<group>>, before |-> fs,
                       errors |-> res.errors, aborted |-> res.aborted,
                       runs |-> 1]
    /\ UNCHANGED <<fs0, catalog, inserted, panicked, repeats, selected, walk, twin, reads, created, look, file>>

NextActor ==
    \/ /\ last.runs = 0
       /\ \E actor \in {"print", "delete", "link"}, reverse \in BOOLEAN :
             \E group \in GroupChoices : Act(actor, reverse, group)
    \/ DedupAgain

SpecActor == InitActor /\ [][NextActor]_vars

(***************************************************************************)
(* The selectors on their own, as the selector tests call them: one select *)
(* on a Duplicates made by hand.  The files are added with a creation time *)
(* (with_metadata(TestMD::new().with_creation_time(t))) or, as in          *)
(* select_shortest, without metadata.                                      *)
(***************************************************************************)
\* creation times, in seconds after UNIX_EPOCH
TimePool == {1, 2}

TimeChoices ==
    {t \in [1..NFiles -> [md : BOOLEAN, time : TimePool]] :
        \A i \in 1..NFiles : ~t[i].md => t[i].time = 1}

MkTimedFile(p, t) ==
    IF t.md
    THEN with_metadata(TestFile_new(p), with_creation_time(TestMD_new, t.time))
    ELSE TestFile_new(p)

RECURSIVE AddTimedFiles(_, _, _)
AddTimedFiles(f, t, i) ==
    IF i > NFiles THEN f
    ELSE AddTimedFiles(add(f, MkTimedFile(FilePaths[i], t[i])), t, i + 1)

MkTimedFS(t) ==
    AddTimedFiles(
        create_dir(create_dir(create_dir(TestFileSystem_new, Root), DirX), DirXY),
        t, 1)

\* the Duplicates given to select: some of the paths, in some order
SelectChoices ==
    UNION {Perms(S) : S \in (SUBSET Range(GroupPaths)) \ {{}}}

InitSelect ==
    /\ \E t \in TimeChoices : fs = MkTimedFS(t)
    /\ InitRest

Select(selector, reverse, dups) ==
    /\ selected.calls = 0
    /\ selected' = [selector |-> selector, reverse |-> reverse, dups |-> dups,
                    result |-> Selector_select(selector, reverse, fs, dups),
                    calls |-> 1]
    /\ UNCHANGED <<fs, fs0, catalog, inserted, panicked, repeats, last, walk, twin, reads, created, look, file>>

NextSelect ==
    /\ selected.calls = 0
    /\ \E selector \in {"path", "date"}, reverse \in BOOLEAN :
          \E dups \in SelectChoices : Select(selector, reverse, dups)

SpecSelect == InitSelect /\ [][NextSelect]_vars

(***************************************************************************)
(* Two catalogs over one filesystem, given the same inserts in the same    *)
(* order, and one get_repeats on each.  The files have inodes of their own *)
(* and one of two lengths.                                                 *)
(***************************************************************************)
TwinPaths == <<PathA, PathB, PathC, PathD>>
TwinContents == [1..Len(TwinPaths) -> {<<1>>, <<1, 1, 1>>}]

RECURSIVE AddTwinFiles(_, _, _)
AddTwinFiles(f, c, i) ==
    IF i > Len(TwinPaths) THEN f
    ELSE AddTwinFiles(add(f, MkFile(TwinPaths[i], i, c[i])), c, i + 1)

InitTwin ==
    /\ \E c \in TwinContents :
          fs = AddTwinFiles(create_dir(TestFileSystem_new, Root), c, 1)
    /\ InitRest

\* the same insert on both catalogs
InsertTwin(path) ==
    /\ ~twin.returned
    /\ path \notin Range(inserted)
    /\ LET r == insert(catalog, fs, path)
           r2 == insert(twin.catalog, fs, path)
       IN  /\ r.ok /\ r2.ok
           /\ catalog' = r.val
           /\ twin' = [twin EXCEPT !.catalog = r2.val]
    /\ inserted' = Append(inserted, path)
    /\ LET rd == insert_reads(catalog, fs, path)
       IN  reads' = [first_bytes |-> reads.first_bytes \cup rd.first_bytes,
                    hashes |-> reads.hashes \cup rd.hashes]
    /\ UNCHANGED <<fs, fs0, panicked, repeats, last, selected, walk, created, look, file>>

\* get_repeats on each catalog
GetRepeatsTwin ==
    /\ ~twin.returned
    /\ \E r \in get_repeats(catalog), r2 \in get_repeats(twin.catalog) :
          /\ repeats' = r
          /\ twin' = [twin EXCEPT !.repeats = r2, !.returned = TRUE]
    /\ UNCHANGED <<fs, fs0, catalog, inserted, panicked, last, selected, walk, reads, created, look, file>>

NextTwin ==
    \/ \E p \in Range(TwinPaths) : InsertTwin(p)
    \/ GetRepeatsTwin

SpecTwin == InitTwin /\ [][NextTwin]_vars

(***************************************************************************)
(* The cataloger on its own: inserts only, of the files in any order, of a *)
(* path nothing is at and of a file added without metadata.  The contents  *)
(* come in two lengths; those of the longer length share their first bytes *)
(* and differ later, or differ in the first byte.                          *)
(***************************************************************************)
CatalogPool == {<<1>>, <<1, 1, 1, 1>>, <<1, 1, 1, 2>>, <<2, 1, 1, 1>>}

CatalogContentChoices(a) ==
    {c \in [1..MaxInodes -> CatalogPool] :
        \A n \in 1..MaxInodes :
            (\A i \in 1..NFiles : a[i] /= n) => c[n] = <<1>>}

\* a file added as TestFile::new(path), without metadata
PathNoMD == PathE

InitCatalog ==
    /\ \E a \in InodeChoices : \E c \in CatalogContentChoices(a) :
          fs = add(MkFS(a, c), TestFile_new(PathNoMD))
    /\ InitRest

NextCatalog == \E p \in FileSet \cup {PathMissing, PathNoMD} : Insert(p)

SpecCatalog == InitCatalog /\ [][NextCatalog]_vars

(***************************************************************************)
(* The walker on its own, as the walker tests call it: traverse_all on a   *)
(* filesystem of files, directories and symlinks.  The symlinks point to   *)
(* a file, a directory, a path nothing is at, or a symlink (themselves     *)
(* included, which makes the chains and cycles of handle_symlinks).        *)
(***************************************************************************)
LinkS == <<"/", "s">>
LinkT == <<"/", "x", "t">>
LinkU == <<"/", "u">>
LinkPaths == <<LinkS, LinkT, LinkU>>
\* the targets each symlink may be given, NoPath for a symlink that is not
\* created
LinkTargets ==
    <<{PathA, DirX, LinkT, NoPath},
      {PathA, Root, LinkS, LinkT, LinkU},
      {PathB, LinkT, PathMissing}>>

LinkChoices ==
    {t \in [1..Len(LinkPaths) -> UNION Range(LinkTargets)] :
        \A i \in 1..Len(LinkPaths) : t[i] \in LinkTargets[i]}

RECURSIVE AddLinks(_, _, _)
AddLinks(f, t, i) ==
    IF i > Len(LinkPaths) THEN f
    ELSE AddLinks(IF t[i] = NoPath THEN f
                  ELSE create_symlink(f, LinkPaths[i], t[i]), t, i + 1)

\* the walked filesystems: the empty one of empty_fs, and the root, the
\* files (the first two hardlinks of each other) and a directory, with
\* symlinks
WalkBase ==
    create_dir(
        AddFiles(create_dir(TestFileSystem_new, Root),
                 [i \in 1..NFiles |-> IF i = 1 THEN 1 ELSE i - 1],
                 [n \in 1..MaxInodes |-> <<1>>], 1),
        DirX)

WalkFS == {TestFileSystem_new} \cup {AddLinks(WalkBase, t, 1) : t \in LinkChoices}

WalkRoots == {<<Root>>, <<DirX, Root>>, <<LinkS>>, <<PathMissing>>}

InitWalk ==
    /\ fs \in WalkFS
    /\ fs0 = fs
    /\ catalog = FileCataloger_new
    /\ inserted = <<>>
    /\ panicked = FALSE
    /\ repeats = <<>>
    /\ last = NoRun
    /\ selected = NoSelect
    /\ \E roots \in WalkRoots : walk = DirWalker_new(roots)
    /\ twin = NoTwin
    /\ reads = NoReads
    /\ created = <<>>
    /\ look = NoLookup
    /\ file = [tf |-> TestFile_new(PathA), calls |-> 0, read |-> FALSE,
               first_bytes |-> Err("none")]

\* one turn of traverse_all: the path on top of the stack is handled
WalkStep ==
    /\ ~walk.done
    /\ walk.todo /= <<>>
    /\ walk' \in dispatch([walk EXCEPT !.todo = Tail(@)], fs, Head(walk.todo))
    /\ UNCHANGED <<fs, fs0, catalog, inserted, panicked, repeats, last, selected, twin, reads, created, look, file>>

\* traverse_all returns the files emitted
WalkReturn ==
    /\ ~walk.done
    /\ walk.todo = <<>>
    /\ walk' = [walk EXCEPT !.done = TRUE]
    /\ UNCHANGED <<fs, fs0, catalog, inserted, panicked, repeats, last, selected, twin, reads, created, look, file>>

NextWalk == WalkStep \/ WalkReturn

\* traverse_all is one call that runs to its end unless it loops
SpecWalk == InitWalk /\ [][NextWalk]_vars /\ WF_vars(NextWalk)

(***************************************************************************)
(* The in-memory filesystem on its own: create_file, create_dir and        *)
(* create_symlink calls in any order, a path created again included.       *)
(***************************************************************************)
\* Number of create calls made on a filesystem.
MaxCalls == 3

InitVFS ==
    /\ fs = TestFileSystem_new
    /\ InitRest

\* call c, and the inode of the entry it has made
Create(c) ==
    /\ Len(created) < MaxCalls
    /\ fs' = IF c.op = "file" THEN create_file(fs, c.path)
             ELSE IF c.op = "dir" THEN create_dir(fs, c.path)
             ELSE create_symlink(fs, c.path, c.target)
    /\ created' = Append(created,
                     [op |-> c.op, path |-> c.path, target |-> c.target,
                      inode |-> IF c.op = "symlink"
                                THEN fs'.symlinks[c.path][1].inode
                                ELSE fs'.files[c.path].inode])
    /\ UNCHANGED <<fs0, catalog, inserted, panicked, repeats, last, selected,
                   walk, twin, reads, look, file>>

NextVFS ==
    \E c \in [op : {"file"}, path : {PathA, PathB}, target : {NoPath}]
            \cup [op : {"dir"}, path : {Root, DirX}, target : {NoPath}]
            \cup [op : {"symlink"}, path : {LinkS, LinkT, PathB},
                   target : {PathA, LinkS, LinkT, PathMissing}] :
        Create(c)

SpecVFS == InitVFS /\ [][NextVFS]_vars

(***************************************************************************)
(* TestFileSystem::lookup step by step: one action for the test of the     *)
(* map of files and the first self.symlinks.get, one for each pass of the  *)
(* while loop.  The filesystems hold the root, a file and up to three      *)
(* symlinks, each pointing at the file, at a symlink (itself included) or  *)
(* at a path that does not exist.                                          *)
(***************************************************************************)
\* self.symlinks.get(path), as the target of the entry found
symlinks_get(f, path) ==
    IF path \in DOMAIN f.symlinks THEN Some(f.symlinks[path][2])
    ELSE [some |-> FALSE, val |-> NoPath]

\* the root, a file, and each symlink with its target, NoPath for a symlink
\* that is not created
InitLookup ==
    /\ \E t \in [1..Len(LinkPaths) ->
                   {PathA, LinkS, LinkT, LinkU, PathMissing, NoPath}] :
          fs = AddLinks(create_file(create_dir(TestFileSystem_new, Root),
                                    PathA), t, 1)
    /\ InitRest

\* the call, up to the while loop
LookupStart(path) ==
    /\ look.state = "idle"
    /\ look' = IF path \in DOMAIN fs.files
               THEN [NoLookup EXCEPT !.path = path, !.state = "done",
                                     !.result = Ok(fs.files[path])]
               ELSE [NoLookup EXCEPT !.path = path, !.state = "loop",
                                     !.cur = symlinks_get(fs, path)]
    /\ UNCHANGED <<fs, fs0, catalog, inserted, panicked, repeats, last,
                   selected, walk, twin, reads, created, file>>

\* a pass of the loop that follows the symlink without noting its target
LookupStep_forgetful ==
    /\ look.state = "loop"
    /\ look' = IF ~look.cur.some
               THEN [look EXCEPT !.state = "done", !.result = Err("NotFound")]
               ELSE IF look.cur.val \in Range(look.seen)
               THEN [look EXCEPT !.state = "done", !.result = Err("Loop")]
               ELSE [look EXCEPT !.cur = symlinks_get(fs, look.cur.val)]
    /\ UNCHANGED <<fs, fs0, catalog, inserted, panicked, repeats, last,
                   selected, walk, twin, reads, created, file>>

\* one test of the loop condition and, when cur is an entry, one pass of
\* the body
LookupStep ==
    /\ look.state = "loop"
    /\ look' = IF ~look.cur.some
               THEN [look EXCEPT !.state = "done", !.result = Err("NotFound")]
               ELSE IF look.cur.val \in Range(look.seen)
               THEN [look EXCEPT !.state = "done", !.result = Err("Loop")]
               ELSE [look EXCEPT !.seen = Append(@, look.cur.val),
                                 !.cur = symlinks_get(fs, look.cur.val)]
    /\ UNCHANGED <<fs, fs0, catalog, inserted, panicked, repeats, last,
                   selected, walk, twin, reads, created, file>>

NextLookup ==
    \/ \E path \in {PathA, LinkS, LinkT, LinkU, PathMissing} :
          LookupStart(path)
    \/ LookupStep

\* a call that has entered the loop keeps running
SpecLookup == InitLookup /\ [][NextLookup]_vars /\ WF_vars(LookupStep)

(***************************************************************************)
(* Re-cataloging: the paths of a filesystem through insert, in some order. *)
(***************************************************************************)
RECURSIVE insert_all(_, _, _)
insert_all(cat, f, paths) ==
    IF paths = <<>> THEN cat
    ELSE insert_all(insert(cat, f, Head(paths)).val, f, Tail(paths))

\* the regular files of a filesystem
regular_files(f) == {p \in DOMAIN f.files : f.files[p].kind = "File"}

(***************************************************************************)
(* Vocabulary of the properties.                                           *)
(***************************************************************************)
\* the inode and the contents of the file at p
InodeAt(f, p) == File_get_inode(f.files[p]).val
ContentsAt(f, p) == f.files[p].contents.val
\* the paths a vector of Duplicates holds
PathsOf(r) == Range(Flatten(r))
\* p has a duplicate among the inserted paths: another inode, the same bytes
HasDuplicate(p) ==
    \E q \in Range(inserted) :
        /\ InodeAt(fs0, p) /= InodeAt(fs0, q)
        /\ ContentsAt(fs0, p) = ContentsAt(fs0, q)
\* the IDs of a digest bucket and every Duplicates the catalog holds
BucketMap(cat, b) == cat[b[1]].map[b[2]].map[b[3]]
HeldDuplicates(cat) ==
    UNION {{BucketMap(cat, b)[id] : id \in DOMAIN BucketMap(cat, b)} :
              b \in Buckets(cat)}
\* the one group of a direct actor run, its keeper Duplicates, its paths
TheGroup == last.groups[1]
KeeperDup == TheGroup[keeper_index(TheGroup, last.reverse)]
GroupInodes == {InodeAt(last.before, p) : p \in PathsOf(TheGroup)}
AllExist(f, g) == PathsOf(g) \subseteq regular_files(f)
\* a group as the catalog makes them: the paths exist, one inode for each
\* Duplicates, another inode for another Duplicates
WellFormed(f, g) ==
    /\ AllExist(f, g)
    /\ \A i, j \in 1..Len(g) : \A p \in Range(g[i]), q \in Range(g[j]) :
          (InodeAt(f, p) = InodeAt(f, q)) <=> (i = j)
\* the names of f that are outside group g
Outside(f, g) == (DOMAIN f.files) \ PathsOf(g)

(***************************************************************************)
(* Properties of the catalog (specification Spec).  They are stated of the *)
(* states of the walk: an actor run leaves catalog, inserted and fs0 as    *)
(* they are.                                                               *)
(***************************************************************************)
Cataloging == last.runs = 0

\* C1: every Duplicates that get_repeats returns comes with another one of
\* a different inode and the same digest, and every group of the returned
\* vector holds two or more inodes, all of its files of one digest (the
\* same bytes); a digest bucket of a single ID gives nothing.
C1_GroupsHaveTwoIDs ==
    Cataloging => \A r \in get_repeats(catalog) :
        /\ \A i \in 1..Len(r) : \A p \in Range(r[i]) :
              \E j \in 1..Len(r) : \E q \in Range(r[j]) :
                 /\ InodeAt(fs0, p) /= InodeAt(fs0, q)
                 /\ ContentsAt(fs0, p) = ContentsAt(fs0, q)
        /\ \A g \in Range(duplicate_groups(catalog, r)) :
              /\ Cardinality({InodeAt(fs0, p) : p \in PathsOf(g)}) >= 2
              /\ \A p, q \in PathsOf(g) :
                    ContentsAt(fs0, p) = ContentsAt(fs0, q)
        /\ \A b \in Buckets(catalog) :
              Cardinality(DOMAIN BucketMap(catalog, b)) = 1 =>
                 \A id \in DOMAIN BucketMap(catalog, b) :
                    BucketMap(catalog, b)[id] \notin Range(r)

\* a group is returned while a bucket of the same first bytes holds one ID
C1_Witness ==
    /\ \E r \in get_repeats(catalog) : r /= <<>>
    /\ \E b, c \in Buckets(catalog) :
          /\ b[2] = c[2]
          /\ Cardinality(DOMAIN BucketMap(catalog, b)) = 1
          /\ Cardinality(DOMAIN BucketMap(catalog, c)) >= 2

\* C3: an inserted path is in the vector get_repeats returns if and only if
\* another inserted path has a different inode and the same bytes, whatever
\* the order of the inserts and of the iteration.
C3_RepeatsComplete ==
    Cataloging => \A r \in get_repeats(catalog) : \A p \in Range(inserted) :
        (p \in PathsOf(r)) <=> HasDuplicate(p)

\* two duplicates are returned though a third file was inserted first
C3_Witness ==
    /\ Len(inserted) = NFiles
    /\ ~HasDuplicate(inserted[1])
    /\ HasDuplicate(inserted[2])
    /\ \E r \in get_repeats(catalog) : Len(r) = 2

\* C4: the inserted hardlinks of one inode, when no inserted file of another
\* inode has their bytes, are in no returned Duplicates; when all inserted
\* paths are hardlinks of one inode, get_repeats returns the empty vector.
C4_HardlinksAlone ==
    Cataloging =>
    /\ \A n \in {InodeAt(fs0, p) : p \in Range(inserted)} :
          LET H == {p \in Range(inserted) : InodeAt(fs0, p) = n}
          IN  (\A p \in H : ~HasDuplicate(p)) =>
                 \A r \in get_repeats(catalog) : PathsOf(r) \cap H = {}
    /\ (\A p, q \in Range(inserted) : InodeAt(fs0, p) = InodeAt(fs0, q)) =>
          get_repeats(catalog) = {<<>>}

\* every file is a hardlink of one inode and all have reached one Duplicates
C4_Witness ==
    /\ Len(inserted) = NFiles
    /\ \A p, q \in Range(inserted) : InodeAt(fs0, p) = InodeAt(fs0, q)
    /\ \E d \in HeldDuplicates(catalog) : Len(d) = NFiles

\* C5: every Duplicates the catalog holds or get_repeats returns is not
\* empty, and its paths are inserted paths of one inode, the inode of the ID
\* it is filed under.
C5_DuplicatesOneID ==
    Cataloging =>
    /\ \A b \in Buckets(catalog) : \A id \in DOMAIN BucketMap(catalog, b) :
          LET d == BucketMap(catalog, b)[id]
          IN  /\ d /= <<>>
              /\ Range(d) \subseteq Range(inserted)
              /\ \A p \in Range(d) : InodeAt(fs0, p) = id.inode
    /\ \A r \in get_repeats(catalog) : \A i \in 1..Len(r) :
          /\ r[i] /= <<>>
          /\ Range(r[i]) \subseteq Range(inserted)
          /\ \A p, q \in Range(r[i]) : InodeAt(fs0, p) = InodeAt(fs0, q)

\* a bucket holds a Duplicates of two paths next to another Duplicates
C5_Witness ==
    \E b \in Buckets(catalog) :
        /\ Cardinality(DOMAIN BucketMap(catalog, b)) >= 2
        /\ \E id \in DOMAIN BucketMap(catalog, b) :
              Len(BucketMap(catalog, b)[id]) >= 2

C6_PrinterChangesNothing ==
    (last.actor = "print" /\ last.runs = 1) =>
        /\ fs = last.before
        /\ DOMAIN fs.files = DOMAIN last.before.files
        /\ len(fs) = len(last.before)
        /\ num_inodes(fs) = num_inodes(last.before)

\* the printer was given a group of two Duplicates of existing files
C6_Witness ==
    /\ last.actor = "print"
    /\ last.runs = 1
    /\ Len(TheGroup) = 2
    /\ AllExist(last.before, TheGroup)

LinkerKeepsPaths ==
    /\ DOMAIN fs.files = DOMAIN last.before.files
    /\ fs.symlinks = last.before.symlinks
    /\ len(fs) = len(last.before)
    /\ \A p \in PathsOf(TheGroup) :
          InodeAt(fs, p)
             = InodeAt(last.before, keeper_path(TheGroup, last.reverse))
    /\ \A p \in Outside(fs, TheGroup) : fs.files[p] = last.before.files[p]

\* the inodes of the group, the keeper's apart, that have no name outside
\* the group
GroupOnlyInodes ==
    {n \in GroupInodes :
        /\ n /= InodeAt(last.before, keeper_path(TheGroup, last.reverse))
        /\ \A p \in Outside(last.before, TheGroup) :
              InodeAt(last.before, p) /= n}

Unpreservable ==
    \/ ~exists(last.before, keeper_path(TheGroup, last.reverse))
    \/ /\ last.actor = "link"
       /\ KeeperDup[1] \notin DOMAIN last.before.files

C11_LinkerTwice ==
    (last.actor = "link" /\ last.runs = 2) =>
        /\ DOMAIN fs.files = DOMAIN last.before.files
        /\ \A p \in DOMAIN fs.files :
              InodeAt(fs, p) = InodeAt(last.before, p)
        /\ fs = last.before

\* the linker ran twice on a group of existing paths of two inodes, and its
\* first run changed the filesystem
C11_Witness ==
    /\ last.actor = "link"
    /\ last.runs = 2
    /\ fs /= fs0
    /\ AllExist(fs0, TheGroup)
    /\ Cardinality({InodeAt(fs0, p) : p \in PathsOf(TheGroup)}) = 2

(***************************************************************************)
(* Properties of one select (specification SpecSelect).                    *)
(***************************************************************************)
\* C12: PathSelect.select on a non-empty Duplicates returns one of its
\* paths with the fewest components, PathSelect.reverse().select one with
\* the most.
C12_PathSelectMinMax ==
    (selected.calls = 1 /\ selected.selector = "path") =>
        /\ selected.result.ok
        /\ selected.result.val \in Range(selected.dups)
        /\ ~selected.reverse =>
              \A p \in Range(selected.dups) : Len(selected.result.val) <= Len(p)
        /\ selected.reverse =>
              \A p \in Range(selected.dups) : Len(selected.result.val) >= Len(p)

\* the reversed PathSelect chose among paths of two depths
C12_Witness ==
    /\ selected.calls = 1
    /\ selected.selector = "path"
    /\ selected.reverse
    /\ \E p, q \in Range(selected.dups) : Len(p) < Len(q)

\* every path of the Duplicates given to select can be looked up and has
\* metadata with a creation time
AllStatable == \A p \in Range(selected.dups) : statable(fs, p)

\* C13: DateSelect.select on a non-empty Duplicates whose paths all resolve
\* (the file and its metadata can be read) returns one of its paths with
\* the latest creation time, DateSelect.reverse().select one with the
\* earliest.
C13_DateSelectNewestOldest ==
    (selected.calls = 1 /\ selected.selector = "date" /\ AllStatable) =>
        /\ selected.result.ok
        /\ selected.result.val \in Range(selected.dups)
        /\ ~selected.reverse =>
              \A p \in Range(selected.dups) :
                 date_of(fs, selected.result.val) >= date_of(fs, p)
        /\ selected.reverse =>
              \A p \in Range(selected.dups) :
                 date_of(fs, selected.result.val) <= date_of(fs, p)

\* DateSelect chose among resolving paths of two creation times
C13_Witness ==
    /\ selected.calls = 1
    /\ selected.selector = "date"
    /\ ~selected.reverse
    /\ AllStatable
    /\ \E p, q \in Range(selected.dups) : date_of(fs, p) < date_of(fs, q)

\* C14: what select returns, for either selector in either direction, is a
\* path of the Duplicates it was given (PathSelect always returns;
\* DateSelect returns exactly when every path resolves and panics
\* otherwise), and the call leaves the filesystem as it was.
C14_SelectReturnsMember ==
    selected.calls = 1 =>
        /\ selected.result.ok => selected.result.val \in Range(selected.dups)
        /\ selected.selector = "path" => selected.result.ok
        /\ selected.selector = "date" => (selected.result.ok <=> AllStatable)
        /\ fs = fs0

\* a selector returned from a Duplicates of two or more paths
C14_Witness ==
    /\ selected.calls = 1
    /\ selected.result.ok
    /\ Len(selected.dups) >= 2
    /\ selected.selector = "date"

(***************************************************************************)
(* What the roots lead to: the roots, the entries of a directory that is   *)
(* led to, the target of a symlink that is led to.                         *)
(***************************************************************************)
IsDir(f, p) == p \in DOMAIN f.files /\ f.files[p].kind = "Dir"
IsRegular(f, p) == p \in DOMAIN f.files /\ f.files[p].kind = "File"

RECURSIVE LedTo(_, _)
LedTo(f, S) ==
    LET more == S \cup UNION {file_children(f, p) \cup symlink_children(f, p) :
                                p \in {q \in S : IsDir(f, q)}}
                   \cup {f.symlinks[p][2] : p \in S \cap DOMAIN f.symlinks}
    IN  IF more = S THEN S ELSE LedTo(f, more)

ReachableFiles == {p \in LedTo(fs, Range(walk.directories)) : IsRegular(fs, p)}

\* a symlink whose chain of targets ends at a path nothing is at
RECURSIVE Broken(_, _, _)
Broken(f, p, n) ==
    IF p \notin DOMAIN f.symlinks THEN ~exists(f, p)
    ELSE n > 0 /\ Broken(f, f.symlinks[p][2], n - 1)
\* a symlink whose chain of targets comes back to it
RECURSIVE Cyclic(_, _, _, _)
Cyclic(f, p, q, n) ==
    /\ q \in DOMAIN f.symlinks
    /\ \/ f.symlinks[q][2] = p
       \/ n > 0 /\ Cyclic(f, p, f.symlinks[q][2], n - 1)

\* C15: traverse_all returns, and what it returns holds every regular file
\* the roots lead to exactly once, whether the file is reached directly,
\* through symlinks or both; broken symlinks and symlink cycles add nothing
\* and do not keep it from returning.
C15_TraverseAllOnce ==
    /\ [](walk.done =>
            /\ Range(walk.files) = ReachableFiles
            /\ \A i, j \in 1..Len(walk.files) :
                  walk.files[i] = walk.files[j] => i = j)
    /\ <>walk.done

\* the walk is over; a file was reached directly and through a symlink, and
\* a broken symlink and a symlink cycle were passed
C15_Witness ==
    /\ walk.done
    /\ \E l \in walk.seen \cap DOMAIN fs.symlinks :
          /\ IsRegular(fs, fs.symlinks[l][2])
          /\ parent(fs.symlinks[l][2]) = Some(Root)
          /\ Root \in Range(walk.directories)
    /\ \E l \in walk.seen \cap DOMAIN fs.symlinks : Broken(fs, l, Len(LinkPaths))
    /\ \E l \in walk.seen \cap DOMAIN fs.symlinks : Cyclic(fs, l, l, Len(LinkPaths))

\* C16: two catalogs built by the same inserts over the same filesystem
\* return the same vector from get_repeats: the same groups in the same
\* order, the same Duplicates and paths in the same order inside each.
C16_AsStated == twin.returned => repeats = twin.repeats

(***************************************************************************)
(* Properties of the cataloger on its own (specification SpecCatalog).     *)
(***************************************************************************)
\* the paths whose insert returned
Cataloged ==
    Range(IF panicked THEN SubSeq(inserted, 1, Len(inserted) - 1) ELSE inserted)

\* where the catalog holds path p: <<size>> for the pending entry of a size,
\* <<size, first bytes>> for the pending entry of a first-bytes bucket,
\* <<size, first bytes, hash, ID, i>> for the i-th path of a Duplicates
PlacesInHashProxy(hp, p) ==
    IF hp.state = "PendingSingle"
    THEN IF hp.path = p THEN {<<>>} ELSE {}
    ELSE UNION {UNION {{<<h, id, i>> : i \in {j \in 1..Len(hp.map[h][id]) :
                                                hp.map[h][id][j] = p}} :
                          id \in DOMAIN hp.map[h]} :
                   h \in DOMAIN hp.map}

PlacesInProxy(fk, p) ==
    IF fk.state = "PendingSingle"
    THEN IF fk.path = p THEN {<<>>} ELSE {}
    ELSE UNION {{<<fb>> \o t : t \in PlacesInHashProxy(fk.map[fb], p)} :
                   fb \in DOMAIN fk.map}

Places(cat, p) ==
    UNION {{<<size>> \o t : t \in PlacesInProxy(cat[size], p)} :
              size \in DOMAIN cat}

\* C17: every path whose insert returned is held by the catalog at exactly
\* one place, under the length of its file: as the pending entry of that
\* length, or in one first-bytes bucket of it, there as the pending entry
\* or in one Duplicates of one hash; this holds after every insert, so no
\* insert loses a path inserted before, the pending path re-filed on
\* promotion included.
C17_OnePlaceEach ==
    \A p \in Cataloged :
        \E t \in Places(catalog, p) :
            /\ Places(catalog, p) = {t}
            /\ t[1] = Len(ContentsAt(fs0, p))

\* both proxies of a length have been promoted, and the paths that were
\* pending are in a Duplicates; another path is the pending entry of a
\* first-bytes bucket of the same length
C17_Witness ==
    /\ ~panicked
    /\ \E p, q, r \in Cataloged :
          /\ p = inserted[1]
          /\ q /= p
          /\ \E t \in Places(catalog, p), u \in Places(catalog, q) :
                Len(t) = 5 /\ Len(u) = 5 /\ t[1] = u[1] /\ t[2] = u[2]
          /\ \E t \in Places(catalog, p), v \in Places(catalog, r) :
                Len(v) = 2 /\ v[1] = t[1]

LengthAt(f, p) == Len(ContentsAt(f, p))
FirstBytesAt(f, p) == get_first_bytes(f.files[p]).val

\* C18: content reads are lazy.  The insert of a file whose length the
\* catalog does not hold yet reads no first bytes and hashes nothing; and a
\* path has been hashed only if another path whose insert returned has its
\* length and its first K bytes.
C18_LazyReads ==
    /\ [][\A p \in FileSet :
            (/\ inserted' = Append(inserted, p)
             /\ LengthAt(fs0, p) \notin DOMAIN catalog) => reads' = reads]_vars
    /\ [](\A p \in reads.hashes :
            \E q \in Cataloged \ {p} :
                /\ LengthAt(fs0, q) = LengthAt(fs0, p)
                /\ FirstBytesAt(fs0, q) = FirstBytesAt(fs0, p))

\* a path of a length of its own was inserted last and nothing of it
\* read, after two paths of another length had been hashed
C18_Witness ==
    /\ ~panicked
    /\ Len(inserted) = 3
    /\ inserted[3] \notin reads.first_bytes \cup reads.hashes
    /\ {inserted[1], inserted[2]} \subseteq reads.hashes

\* the paths whose insert returned and reached the proxy of a length, and
\* the HashProxy of a length and first bytes
Reached(size) == {p \in Cataloged : LengthAt(fs0, p) = size}
ReachedHash(size, fb) == {p \in Reached(size) : FirstBytesAt(fs0, p) = fb}

PendingIffOne(proxy, n) ==
    /\ proxy.state \in {"PendingSingle", "Promoted"}
    /\ proxy.state = "PendingSingle" <=> n = 1
    /\ proxy.state = "Promoted" <=> n >= 2

\* what proxy b holds of proxy a: a promoted proxy stays promoted and keeps
\* its buckets
KeepsHashProxy(a, b) ==
    a.state = "Promoted" =>
        /\ b.state = "Promoted"
        /\ \A h \in DOMAIN a.map :
              /\ h \in DOMAIN b.map
              /\ DOMAIN a.map[h] \subseteq DOMAIN b.map[h]

KeepsProxy(a, b) ==
    a.state = "Promoted" =>
        /\ b.state = "Promoted"
        /\ \A fb \in DOMAIN a.map :
              /\ fb \in DOMAIN b.map
              /\ KeepsHashProxy(a.map[fb], b.map[fb])

\* C19: a proxy is PendingSingle when one insert has reached it and Promoted
\* when two or more have; and no step takes a proxy from Promoted back to
\* PendingSingle or removes a length bucket, a first-bytes bucket, a hash
\* bucket, an ID or a path from the catalog.
C19_PromotionOneWay ==
    /\ [](\A size \in DOMAIN catalog :
            /\ PendingIffOne(catalog[size], Cardinality(Reached(size)))
            /\ catalog[size].state = "Promoted" =>
                  \A fb \in DOMAIN catalog[size].map :
                      PendingIffOne(catalog[size].map[fb],
                                    Cardinality(ReachedHash(size, fb))))
    /\ [][/\ \A size \in DOMAIN catalog :
              /\ size \in DOMAIN catalog'
              /\ KeepsProxy(catalog[size], catalog'[size])
          /\ \A p \in FileSet :
              Places(catalog, p) /= {} => Places(catalog', p) /= {}]_vars

\* a third path has reached a promoted proxy of a length and, under it, a
\* promoted HashProxy
C19_Witness ==
    /\ ~panicked
    /\ \E size \in DOMAIN catalog :
          /\ Cardinality(Reached(size)) >= 3
          /\ catalog[size].state = "Promoted"
          /\ \E fb \in DOMAIN catalog[size].map :
                /\ catalog[size].map[fb].state = "Promoted"
                /\ Cardinality(ReachedHash(size, fb)) >= 3

\* get_file or get_metadata fails for path p (get_device of a TestMD does
\* not fail)
Unreadable(f, p) ==
    \/ ~get_file(f, p).ok
    \/ ~File_get_metadata(get_file(f, p).val).ok

\* C20: an insert of a path that cannot be opened, or whose metadata cannot
\* be read, panics and leaves the catalog as it was.
C20_FailedInsertChangesNothing ==
    [][\A p \in FileSet \cup {PathMissing, PathNoMD} :
          (inserted' = Append(inserted, p) /\ Unreadable(fs, p)) =>
              panicked' /\ catalog' = catalog]_vars

\* the insert of a file without metadata has panicked, after inserts that
\* promoted a proxy
C20_Witness ==
    /\ panicked
    /\ inserted[Len(inserted)] = PathNoMD
    /\ \E size \in DOMAIN catalog : catalog[size].state = "Promoted"

(***************************************************************************)
(* A TestFile on its own: TestFile::new, then builder calls in any order,  *)
(* then get_first_bytes.  The contents are shorter than the FirstBytes     *)
(* array, as long, or one byte longer.                                     *)
(***************************************************************************)
\* Number of builder calls made on a TestFile.
MaxBuilds == 3

\* the Strings given to with_contents
BuildContents == UNION {[1..n -> {1, 2}] : n \in 0..(FIRST_K_BYTES + 1)}

Build(tf) ==
    /\ ~file.read
    /\ file.calls < MaxBuilds
    /\ file' = [file EXCEPT !.tf = tf, !.calls = @ + 1]
    /\ UNCHANGED <<fs, fs0, catalog, inserted, panicked, repeats, last, selected,
                   walk, twin, reads, created, look>>

GetFirstBytes ==
    /\ ~file.read
    /\ file' = [file EXCEPT !.read = TRUE,
                            !.first_bytes = get_first_bytes(file.tf)]
    /\ UNCHANGED <<fs, fs0, catalog, inserted, panicked, repeats, last, selected,
                   walk, twin, reads, created, look>>

\* a builder call with an inode from 0 to 2, a kind, contents, or a TestMD
\* made by with_len, with_kind and with_id; or the read of the first bytes
NextFile ==
    \/ \E i \in 0..2 : Build(with_inode(file.tf, i))
    \/ \E k \in {"File", "Dir", "Symlink"} : Build(with_kind(file.tf, k))
    \/ \E c \in BuildContents : Build(with_contents(file.tf, c))
    \/ \E n \in {0, 1}, k \in {"File", "Dir", "Symlink"}, i \in 0..2 :
          Build(with_metadata(file.tf,
                    with_id(TestMD_with_kind(with_len(TestMD_new, n), k),
                            [dev |-> 0, inode |-> i])))
    \/ GetFirstBytes

\* from TestFile::new, beside an empty filesystem
SpecFile == InitVFS /\ [][NextFile]_vars

(***************************************************************************)
(* Properties of the in-memory filesystem (specification SpecVFS).         *)
(***************************************************************************)
\* where the chain of symlinks from p ends: a file or directory, a path
\* nothing is at, or NoPath when it does not end within n links
RECURSIVE ChainEnd(_, _, _)
ChainEnd(f, p, n) ==
    IF p \in DOMAIN f.files \/ p \notin DOMAIN f.symlinks THEN p
    ELSE IF n = 0 THEN NoPath
    ELSE ChainEnd(f, f.symlinks[p][2], n - 1)

Symlinks(f) == (DOMAIN f.symlinks) \ (DOMAIN f.files)

\* two results are both Ok or both Err, with the same value
SameResult(r, s) == r.ok = s.ok /\ r.val = s.val

\* C21: get_metadata of a symlink whose chain, of any length, ends at an
\* existing file is the metadata of that file; get_symlink_metadata and
\* read_link stay at the symlink itself.
C21_AsStated ==
    \A p \in Symlinks(fs) :
        LET end == ChainEnd(fs, p, Cardinality(DOMAIN fs.symlinks))
        IN  end \in DOMAIN fs.files =>
                /\ SameResult(get_metadata(fs, p),
                              File_get_metadata(fs.files[end]))
                /\ SameResult(get_symlink_metadata(fs, p),
                              File_get_metadata(fs.symlinks[p][1]))
                /\ SameResult(read_link(fs, p), Ok(fs.symlinks[p][2]))

\* the entries a filesystem holds, each with its map and path
Entries(f) ==
    {<<"file", p>> : p \in DOMAIN f.files}
        \cup {<<"symlink", p>> : p \in DOMAIN f.symlinks}
EntryInode(f, e) ==
    IF e[1] = "file" THEN f.files[e[2]].inode ELSE f.symlinks[e[2]][1].inode

\* C22: inodes are assigned densely from 0 in call order: the n-th create
\* call, counted from 0, assigns inode n, and no two entries of the
\* filesystem share an inode.
C22_AsStated ==
    /\ \A n \in 1..Len(created) : created[n].inode = n - 1
    /\ \A d, e \in Entries(fs) :
          EntryInode(fs, d) = EntryInode(fs, e) => d = e

\* the TestFile of an entry
EntryFile(f, e) ==
    IF e[1] = "file" THEN f.files[e[2]] ELSE f.symlinks[e[2]][1]

\* C24: list_dir(p) returns only entries whose parent is p, each of them
\* exactly once; an entry that is not a direct child of p, the root "/" in
\* particular, is never listed.
C24_AsStated ==
    \A p \in {Root, DirX, PathA} :
        \A r \in list_dir(fs, p) :
            /\ r.ok
            /\ \A i \in 1..Len(r.val) :
                  /\ parent(r.val[i].path) = Some(p)
                  /\ r.val[i].path # Root
            /\ \A e \in Entries(fs) :
                  parent(e[2]) = Some(p) =>
                      Cardinality({i \in 1..Len(r.val) :
                                      r.val[i] = EntryFile(fs, e)}) = 1

\* the n-th path of the chain of symlinks that starts at p: p itself for
\* n = 0, NoPath once the chain has ended
RECURSIVE Hop(_, _, _)
Hop(f, p, n) ==
    IF n = 0 THEN p
    ELSE LET q == Hop(f, p, n - 1)
         IN  IF q \in DOMAIN f.symlinks THEN f.symlinks[q][2] ELSE NoPath

\* the chain from p comes to the same target twice
Revisits(f, p) ==
    \E i, j \in 1..(Cardinality(DOMAIN f.symlinks) + 1) :
        i < j /\ Hop(f, p, i) # NoPath /\ Hop(f, p, i) = Hop(f, p, j)

\* the chain from p comes to a path that is neither a symlink nor a file
EndsMissing(f, p) ==
    \E i \in 0..Cardinality(DOMAIN f.symlinks) :
        LET q == Hop(f, p, i)
        IN  q # NoPath /\ q \notin DOMAIN f.symlinks /\ q \notin DOMAIN f.files

\* C25: lookup terminates for every symlink graph: a call that has entered
\* its loop returns, after at most one pass per symlink of the filesystem
\* and one more; it returns the symlink-loop error when the chain comes
\* to a target twice and NotFound when the chain ends at a missing path.
C25_LookupTerminates ==
    /\ [](Len(look.seen) <= Cardinality(DOMAIN fs.symlinks))
    /\ [](look.state = "done" /\ look.path \notin DOMAIN fs.files =>
            /\ Revisits(fs, look.path) => look.result = Err("Loop")
            /\ EndsMissing(fs, look.path) => look.result = Err("NotFound")
            /\ look.result = lookup(fs, look.path))
    /\ (look.state = "loop") ~> (look.state = "done")

\* a lookup has gone round a cycle of two symlinks or more and returned the
\* symlink-loop error
C25_Witness ==
    /\ look.state = "done"
    /\ ~look.result.ok
    /\ look.result.val = "Loop"
    /\ Len(look.seen) >= 2
    /\ Revisits(fs, look.path)

(***************************************************************************)
(* Properties of a TestFile (specification SpecFile).                      *)
(***************************************************************************)
\* the first n bytes of c, or all of c when it is shorter
Prefix(c, n) == SubSeq(c, 1, IF Len(c) < n THEN Len(c) ELSE n)

\* C23: get_first_bytes of a file with contents returns K bytes: the i-th
\* is the i-th byte of the contents as far as they go and 0 after them,
\* and bytes of the contents after the K-th play no part; of a file
\* without contents it returns the NotFound error.
C23_FirstBytesPadded ==
    file.read =>
        IF file.tf.contents.some
        THEN LET c == file.tf.contents.val
                 b == file.first_bytes.val
             IN  /\ file.first_bytes.ok
                 /\ DOMAIN b = 1..FIRST_K_BYTES
                 /\ \A i \in 1..FIRST_K_BYTES :
                       b[i] = IF i <= Len(c) THEN c[i] ELSE 0
                 /\ \A d \in BuildContents :
                       Prefix(d, FIRST_K_BYTES) = Prefix(c, FIRST_K_BYTES)
                           => get_first_bytes(with_contents(file.tf, d)) = Ok(b)
        ELSE file.first_bytes = Err("NotFound")

\* the first bytes of contents longer than K have been read
C23_Witness ==
    /\ file.read
    /\ file.tf.contents.some
    /\ Len(file.tf.contents.val) > FIRST_K_BYTES
    /\ file.first_bytes.ok

\* C26: once a TestFile has metadata, its fields agree with it: the inode
\* with the inode of the metadata, the kind with its kind, and the length
\* of the contents, when set, with its length, whatever the builder calls
\* and their order.
C26_AsStated ==
    file.tf.metadata.some =>
        LET md == File_get_metadata(file.tf).val
        IN  /\ File_get_inode(file.tf).val = md.id.inode
            /\ get_type(file.tf).val = md.kind
            /\ file.tf.contents.some => md.len = Len(file.tf.contents.val)

====
